---- MODULE Spec2Model ----
(***************************************************************************)
(* Links Folder (src/src/explore.tsx): the hierarchical item store, its    *)
(* persistence (loadLinks / saveLinks / migrateData), the tree mutator     *)
(* (updateFolder and the handlers built on it) and the link launcher       *)
(* (openAllLinks).                                                         *)
(*                                                                         *)
(* JavaScript strings are sequences of text tokens (<<"T">>, <<" ", "u">>);*)
(* the empty string is <<>>.  undefined and null are two values outside    *)
(* the strings.  A JSON text is a value [t, v]: objects are sequences of   *)
(* key/value pairs, arrays are sequences of values.                        *)
(***************************************************************************)
EXTENDS Integers, Sequences, FiniteSets, TLC

VARIABLES
    linksPath,   \* the "Links JSON File" preference (a string or undefined)
    files,       \* the file system: path -> [exists, wellFormed, value]
    now,         \* Date.now()
    data,        \* FolderList state `data` (the tree on display)
    folderId,    \* FolderList prop `folderId` (null at the top level)
    toast,       \* the last toast shown
    io,          \* file I/O performed by the last handler
    opened,      \* openUrl calls issued by the last openAllLinks
    call         \* a function applied to the inputs on its own: name, inputs, result

vars == <<linksPath, files, now, data, folderId, toast, io, opened, call>>

----------------------------------------------------------------------------
(* Bounds *)

MaxNow == 0      \* the clock runs over 0..MaxNow
MaxRand == 2     \* Math.random() takes MaxRand distinct values
MaxItems == 2    \* handlers that add items stop at MaxItems items in the tree
MaxTitle == 2    \* duplicateItem stops at titles of MaxTitle tokens

----------------------------------------------------------------------------
(* JavaScript values *)

undefined == <<"undefined">>
null == <<"null">>

Truthy(v) == v # undefined /\ v # null /\ v # <<>>

\* a || b
Or(a, b) == IF Truthy(a) THEN a ELSE b

RECURSIVE trimStart(_)
trimStart(s) == IF s # <<>> /\ Head(s) = " " THEN trimStart(Tail(s)) ELSE s

RECURSIVE trimEnd(_)
trimEnd(s) ==
    IF s # <<>> /\ s[Len(s)] = " " THEN trimEnd(SubSeq(s, 1, Len(s) - 1)) ELSE s

\* String.prototype.trim
trim(s) == trimEnd(trimStart(s))

LINK == <<"link">>
FOLDER == <<"folder">>

Digits36 ==
    << "0", "1", "2", "3", "4", "5", "6", "7", "8", "9", "a", "b", "c", "d", "e",
       "f", "g", "h", "i", "j", "k", "l", "m", "n", "o", "p", "q", "r", "s", "t",
       "u", "v", "w", "x", "y", "z" >>

\* Number.prototype.toString(36) on a natural number
RECURSIVE toString36(_)
toString36(n) ==
    IF n < Len(Digits36)
    THEN <<Digits36[n + 1]>>
    ELSE toString36(n \div Len(Digits36)) \o <<Digits36[(n % Len(Digits36)) + 1]>>

\* One reading of the clock and of the random source: d.t is Date.now(), d.r
\* the digits Math.random().toString(36).slice(2, 8) keeps.
generateId(d) == toString36(d.t) \o <<"-">> \o toString36(d.r)

\* The readings n successive generateId calls can get when the clock showed t0
\* before them: the clock may have advanced before each call and never runs
\* backwards, the random digits are free.
RECURSIVE Draws(_, _)
Draws(n, t0) ==
    IF n = 0
    THEN {<<>>}
    ELSE UNION { { <<[t |-> t, r |-> r]>> \o rest : rest \in Draws(n - 1, t) }
                 : t \in t0..MaxNow, r \in 0..(MaxRand - 1) }

LastTime(draws, t0) == IF draws = <<>> THEN t0 ELSE draws[Len(draws)].t

----------------------------------------------------------------------------
(* Items *)

LinkItem(id, title, url, icon, app) ==
    [id |-> id, type |-> LINK, title |-> title, url |-> url, icon |-> icon,
     app |-> app, items |-> <<>>]

FolderItem(id, title, icon, items) ==
    [id |-> id, type |-> FOLDER, title |-> title, url |-> undefined, icon |-> icon,
     app |-> undefined, items |-> items]

RECURSIVE CountItems(_)
CountItems(items) ==
    IF items = <<>>
    THEN 0
    ELSE 1 + CountItems(Head(items).items) + CountItems(Tail(items))

\* Every item of a sequence and of its nested folders, in depth-first pre-order.
RECURSIVE Flatten(_)
Flatten(items) ==
    IF items = <<>>
    THEN <<>>
    ELSE <<Head(items)>> \o Flatten(Head(items).items) \o Flatten(Tail(items))

----------------------------------------------------------------------------
(* JSON *)

JNull == [t |-> "null", v |-> <<>>]
JFalse == [t |-> "boolean", v |-> <<"false">>]
JZero == [t |-> "number", v |-> <<"0">>]
JStr(s) == [t |-> "string", v |-> s]
JArr(a) == [t |-> "array", v |-> a]
JObj(pairs) == [t |-> "object", v |-> pairs]
KV(k, val) == [k |-> k, val |-> val]

\* ToBoolean of a parsed JSON value
JTruthy(j) ==
    /\ j.t # "null"
    /\ ~(j.t = "boolean" /\ j.v = <<"false">>)
    /\ ~(j.t = "number" /\ j.v = <<"0">>)
    /\ ~(j.t = "string" /\ j.v = <<>>)

\* typeof j === "object" (for a truthy j)
IsObjectLike(j) == j.t \in {"object", "array"}

\* k in j
Has(j, k) == j.t = "object" /\ \E i \in 1..Len(j.v) : j.v[i].k = k

\* j[k] for a key that is present
Get(j, k) == j.v[CHOOSE i \in 1..Len(j.v) : j.v[i].k = k].val

\* Array.isArray(j[k])
IsArrayAt(j, k) == Has(j, k) /\ Get(j, k).t = "array"

\* j[k] read as a string property: undefined when the key is absent
Field(j, k) ==
    IF Has(j, k) /\ Get(j, k).t = "string" THEN Get(j, k).v
    ELSE IF Has(j, k) /\ Get(j, k).t = "null" THEN null
    ELSE undefined

\* The parsed object j seen through the type AnyItem
RECURSIVE AsItems(_)
AsItem(j) ==
    [id |-> Field(j, "id"), type |-> Field(j, "type"), title |-> Field(j, "title"),
     url |-> Field(j, "url"), icon |-> Field(j, "icon"), app |-> Field(j, "app"),
     items |-> IF IsArrayAt(j, "items") THEN AsItems(Get(j, "items").v) ELSE <<>>]

AsItems(a) == IF a = <<>> THEN <<>> ELSE <<AsItem(Head(a))>> \o AsItems(Tail(a))

\* JSON.stringify leaves out the properties whose value is undefined
Prop(k, v) == IF v = undefined THEN <<>> ELSE <<KV(k, IF v = null THEN JNull ELSE JStr(v))>>

RECURSIVE stringifyItems(_)
stringifyItem(i) ==
    JObj(Prop("id", i.id) \o Prop("type", i.type) \o Prop("title", i.title)
         \o Prop("url", i.url) \o Prop("icon", i.icon) \o Prop("app", i.app)
         \o (IF i.type = FOLDER THEN <<KV("items", JArr(stringifyItems(i.items)))>>
             ELSE <<>>))

stringifyItems(items) ==
    IF items = <<>>
    THEN <<>>
    ELSE <<stringifyItem(Head(items))>> \o stringifyItems(Tail(items))

\* JSON.stringify(data, null, 2)
stringify(d) == JObj(<<KV("items", JArr(stringifyItems(d.items)))>>)

\* A LinksData object passed where `data: unknown` is expected: the object with
\* its items array, each item with the properties that are not undefined
asUnknown(d) == JObj(<<KV("items", JArr(stringifyItems(d.items)))>>)

----------------------------------------------------------------------------
(* Files *)

PrefFile == <<"/custom/links.json">>
SupportFile == <<"supportPath/links.json">>
AssetsFile == <<"assetsPath/links.json">>
Paths == {PrefFile, SupportFile, AssetsFile}

NoFile == [exists |-> FALSE, wellFormed |-> FALSE, value |-> JNull]
Malformed == [exists |-> TRUE, wellFormed |-> FALSE, value |-> JNull]
FileOf(j) == [exists |-> TRUE, wellFormed |-> TRUE, value |-> j]

getPreferencePath(pref) == IF pref = undefined THEN undefined ELSE Or(trim(pref), undefined)

----------------------------------------------------------------------------
(* migrateData *)

\* convertFolder's links loop without the title's default
RECURSIVE convertLinksKeepingTitle(_, _)
convertLinksKeepingTitle(ls, draws) ==
    IF ls = <<>>
    THEN [out |-> <<>>, rest |-> draws]
    ELSE LET link == Head(ls)
             gen == ~Truthy(Field(link, "id"))
             item == LinkItem(IF gen THEN generateId(Head(draws)) ELSE Field(link, "id"),
                              Field(link, "title"),
                              Field(link, "url"), Field(link, "icon"), Field(link, "app"))
             r == convertLinksKeepingTitle(Tail(ls), IF gen THEN Tail(draws) ELSE draws)
         IN  [out |-> <<item>> \o r.out, rest |-> r.rest]

RECURSIVE convertLinks(_, _)
convertLinks(ls, draws) ==
    IF ls = <<>>
    THEN [out |-> <<>>, rest |-> draws]
    ELSE LET link == Head(ls)
             gen == ~Truthy(Field(link, "id"))
             item == LinkItem(IF gen THEN generateId(Head(draws)) ELSE Field(link, "id"),
                              Or(Field(link, "title"), Field(link, "url")),
                              Field(link, "url"), Field(link, "icon"), Field(link, "app"))
             r == convertLinks(Tail(ls), IF gen THEN Tail(draws) ELSE draws)
         IN  [out |-> <<item>> \o r.out, rest |-> r.rest]

RECURSIVE convertFolder(_, _)
RECURSIVE convertFolders(_, _)
convertFolder(f, draws) ==
    LET subs == IF IsArrayAt(f, "folders")
                THEN convertFolders(Get(f, "folders").v, draws)
                ELSE [out |-> <<>>, rest |-> draws]
        links == IF IsArrayAt(f, "links")
                 THEN convertLinks(Get(f, "links").v, subs.rest)
                 ELSE [out |-> <<>>, rest |-> subs.rest]
        gen == ~Truthy(Field(f, "id"))
    IN  [out |-> FolderItem(IF gen THEN generateId(Head(links.rest)) ELSE Field(f, "id"),
                            Or(Or(Field(f, "title"), Field(f, "name")), <<"Unnamed Folder">>),
                            Field(f, "icon"), subs.out \o links.out),
         rest |-> IF gen THEN Tail(links.rest) ELSE links.rest]

convertFolders(fs, draws) ==
    IF fs = <<>>
    THEN [out |-> <<>>, rest |-> draws]
    ELSE LET a == convertFolder(Head(fs), draws)
             b == convertFolders(Tail(fs), a.rest)
         IN  [out |-> <<a.out>> \o b.out, rest |-> b.rest]

\* What a caller of migrateData gets when a property of null is read
TypeError == [error |-> "TypeError"]

\* convertFolder reads f.folders and link.id: a null entry makes the read throw
RECURSIVE foldersThrow(_)
folderThrows(f) ==
    \/ f.t = "null"
    \/ IsArrayAt(f, "folders") /\ foldersThrow(Get(f, "folders").v)
    \/ IsArrayAt(f, "links")
            /\ \E i \in 1..Len(Get(f, "links").v) : Get(f, "links").v[i].t = "null"

foldersThrow(fs) == \E i \in 1..Len(fs) : folderThrows(fs[i])

\* The first branch of migrateData: the document already has an items array
IsCurrentSchema(j) == JTruthy(j) /\ IsObjectLike(j) /\ IsArrayAt(j, "items")

IsLegacySchema(j) == JTruthy(j) /\ IsObjectLike(j) /\ IsArrayAt(j, "folders")

\* migrateData without the pass-through of a document that has an items array
migrateDataRewrapping(j, draws) ==
    IF IsLegacySchema(j)
    THEN IF foldersThrow(Get(j, "folders").v)
         THEN TypeError
         ELSE [items |-> convertFolders(Get(j, "folders").v, draws).out]
    ELSE [items |-> <<>>]

migrateData(j, draws) ==
    IF IsCurrentSchema(j)
    THEN [items |-> AsItems(Get(j, "items").v)]
    ELSE IF IsLegacySchema(j)
    THEN IF foldersThrow(Get(j, "folders").v)
         THEN TypeError
         ELSE [items |-> convertFolders(Get(j, "folders").v, draws).out]
    ELSE [items |-> <<>>]

\* How many times migrateData calls generateId on j
RECURSIVE GenCalls(_)
GenCallsAt(f) ==
    (IF IsArrayAt(f, "folders") THEN GenCalls(Get(f, "folders").v) ELSE 0)
    + (IF IsArrayAt(f, "links")
       THEN Cardinality({i \in 1..Len(Get(f, "links").v) :
                            ~Truthy(Field(Get(f, "links").v[i], "id"))})
       ELSE 0)
    + (IF Truthy(Field(f, "id")) THEN 0 ELSE 1)

GenCalls(fs) == IF fs = <<>> THEN 0 ELSE GenCallsAt(Head(fs)) + GenCalls(Tail(fs))

MigrateGenCalls(j) ==
    IF ~IsCurrentSchema(j) /\ IsLegacySchema(j) /\ ~foldersThrow(Get(j, "folders").v)
    THEN GenCalls(Get(j, "folders").v)
    ELSE 0

----------------------------------------------------------------------------
(* loadLinks, saveLinks *)

\* tryLoad: the parsed value, or null when the file is absent or JSON.parse throws
tryLoad(fs, p) == IF fs[p].exists /\ fs[p].wellFormed THEN fs[p].value ELSE JNull

JOr(a, b) == IF JTruthy(a) THEN a ELSE b

EmptyDocument == JObj(<<KV("items", JArr(<<>>))>>)

rawData(pref, fs) ==
    LET prefPath == getPreferencePath(pref)
    IN  JOr(JOr(JOr(IF Truthy(prefPath) THEN tryLoad(fs, prefPath) ELSE JNull,
                    tryLoad(fs, SupportFile)),
                tryLoad(fs, AssetsFile)),
            EmptyDocument)

loadLinks(pref, fs, draws) == migrateData(rawData(pref, fs), draws)

LoadGenCalls(pref, fs) == MigrateGenCalls(rawData(pref, fs))

\* saveLinks writing to the support path whatever the preference says
saveLinksIgnoringPreference(pref, fs, d) ==
    [fs EXCEPT ![SupportFile] = FileOf(stringify(d))]

saveLinks(pref, fs, d) ==
    LET prefPath == getPreferencePath(pref)
        targetPath == Or(prefPath, SupportFile)
    IN  [fs EXCEPT ![targetPath] = FileOf(stringify(d))]

----------------------------------------------------------------------------
(* updateFolder *)

\* FolderList's find: the children of the first folder, in depth-first order,
\* whose id is folderId
RECURSIVE find(_, _)
find(items, id) ==
    IF items = <<>>
    THEN [found |-> FALSE, items |-> <<>>]
    ELSE LET item == Head(items)
             inner == find(item.items, id)
         IN  IF item.type = FOLDER /\ item.id = id
             THEN [found |-> TRUE, items |-> item.items]
             ELSE IF item.type = FOLDER /\ inner.found
             THEN inner
             ELSE find(Tail(items), id)

currentItems(d, id) == IF Truthy(id) THEN find(d.items, id).items ELSE d.items

\* traverse looking at the top-level folders only
traverseTopLevel(items, id, newItems) ==
    LET hit == { k \in 1..Len(items) : items[k].type = FOLDER /\ items[k].id = id }
    IN  [found |-> hit # {},
         items |-> [k \in 1..Len(items) |->
                      IF k \in hit /\ \A j \in hit : k <= j
                      THEN [items[k] EXCEPT !.items = newItems]
                      ELSE items[k]]]

\* updateFolder's traverse, with the updater's result for the folder it reaches
RECURSIVE traverse(_, _, _)
traverse(items, id, newItems) ==
    IF items = <<>>
    THEN [found |-> FALSE, items |-> <<>>]
    ELSE LET item == Head(items)
             inner == traverse(item.items, id, newItems)
             rest == traverse(Tail(items), id, newItems)
         IN  IF item.type = FOLDER /\ item.id = id
             THEN [found |-> TRUE,
                   items |-> <<[item EXCEPT !.items = newItems]>> \o Tail(items)]
             ELSE IF item.type = FOLDER /\ inner.found
             THEN [found |-> TRUE,
                   items |-> <<[item EXCEPT !.items = inner.items]>> \o Tail(items)]
             ELSE [found |-> rest.found, items |-> <<item>> \o rest.items]

----------------------------------------------------------------------------
(* The updaters of the handlers *)

\* Array.prototype.findIndex(i => i.id === itemId), 0 when there is none
\* (positions are 1-based here, -1 in the source)
findIndex(items, itemId) ==
    IF \E i \in 1..Len(items) : items[i].id = itemId
    THEN CHOOSE i \in 1..Len(items) :
            /\ items[i].id = itemId
            /\ \A j \in 1..(i - 1) : items[j].id # itemId
    ELSE 0

\* copy.splice(idx, 1)
RemoveAt(s, i) == SubSeq(s, 1, i - 1) \o SubSeq(s, i + 1, Len(s))

\* copy.splice(idx, 0, x), x ending at position i
InsertAt(s, i, x) == SubSeq(s, 1, i - 1) \o <<x>> \o SubSeq(s, i, Len(s))

\* moveUpdater wrapping around at the ends
moveUpdaterWrapping(items, itemId, delta) ==
    LET idx == findIndex(items, itemId)
        newIdx == ((idx - 1 + delta) % Len(items)) + 1
    IN  IF idx = 0 THEN items
        ELSE InsertAt(RemoveAt(items, idx), newIdx, items[idx])

moveUpdater(items, itemId, delta) ==
    LET idx == findIndex(items, itemId)
        newIdx == idx + delta
    IN  IF idx = 0 THEN items
        ELSE IF newIdx < 1 \/ newIdx > Len(items) THEN items
        ELSE InsertAt(RemoveAt(items, idx), newIdx, items[idx])

RECURSIVE deepCloneItem(_, _)
RECURSIVE deepCloneItems(_, _)
deepCloneItem(item, draws) ==
    IF item.type = LINK
    THEN [out |-> LinkItem(generateId(Head(draws)), item.title, item.url, item.icon,
                           item.app),
          rest |-> Tail(draws)]
    ELSE LET kids == deepCloneItems(item.items, Tail(draws))
         IN  [out |-> FolderItem(generateId(Head(draws)), item.title, item.icon, kids.out),
              rest |-> kids.rest]

deepCloneItems(items, draws) ==
    IF items = <<>>
    THEN [out |-> <<>>, rest |-> draws]
    ELSE LET a == deepCloneItem(Head(items), draws)
             b == deepCloneItems(Tail(items), a.rest)
         IN  [out |-> <<a.out>> \o b.out, rest |-> b.rest]

\* How many times deepCloneItem(item) calls generateId
CloneGenCalls(item) == 1 + CountItems(item.items)

duplicateUpdater(items, itemId, draws) ==
    LET idx == findIndex(items, itemId)
        copyItem == deepCloneItem(items[idx], draws).out
    IN  IF idx = 0 THEN items
        ELSE InsertAt(items, idx + 1,
                      [copyItem EXCEPT !.title = copyItem.title \o <<" (Copy)">>])

deleteUpdater(items, itemId) == SelectSeq(items, LAMBDA i : i.id # itemId)

----------------------------------------------------------------------------
(* openAllLinks *)

RECURSIVE getAllLinksData(_)
getAllLinksData(items) ==
    IF items = <<>>
    THEN <<>>
    ELSE LET child == Head(items)
         IN  (IF child.type = LINK THEN <<[url |-> child.url, app |-> child.app]>>
              ELSE IF child.type = FOLDER THEN getAllLinksData(child.items)
              ELSE <<>>)
             \o getAllLinksData(Tail(items))

Digits10 == << "0", "1", "2", "3", "4", "5", "6", "7", "8", "9" >>

\* `${n}` for a natural number
RECURSIVE toString10(_)
toString10(n) ==
    IF n < Len(Digits10)
    THEN <<Digits10[n + 1]>>
    ELSE toString10(n \div Len(Digits10)) \o <<Digits10[(n % Len(Digits10)) + 1]>>

NoToast == [style |-> "None", title |-> <<>>]
Failure(title) == [style |-> "Failure", title |-> title]
Success(title) == [style |-> "Success", title |-> title]

\* The summary toast counting from zero
openAllToastOffByOne(links) ==
    IF Len(links) = 0
    THEN Failure(<<"No links in this folder">>)
    ELSE Success(<<"Opened ">> \o toString10(Len(links) - 1) \o <<" link">>
                 \o (IF Len(links) = 1 THEN <<>> ELSE <<"s">>))

\* The summary toast of openAllLinks for the collected links
openAllToast(links) ==
    IF Len(links) = 0
    THEN Failure(<<"No links in this folder">>)
    ELSE Success(<<"Opened ">> \o toString10(Len(links)) \o <<" link">>
                 \o (IF Len(links) = 1 THEN <<>> ELSE <<"s">>))

\* openAllLinks giving up at the first openUrl that throws
openAllCallsAborting(links, fails) ==
    LET last == IF fails = {} THEN Len(links) ELSE CHOOSE k \in fails : \A j \in fails : k <= j
    IN  [i \in 1..last |-> [url |-> links[i].url, app |-> links[i].app, failed |-> i \in fails]]

\* The openUrl calls of openAllLinks: one per collected link, in order; `fails`
\* are the positions at which openUrl throws
openAllCalls(links, fails) ==
    [i \in 1..Len(links) |->
        [url |-> links[i].url, app |-> links[i].app, failed |-> i \in fails]]

----------------------------------------------------------------------------
(* Inputs *)

MaxNodes == 4    \* input trees hold at most MaxNodes items
MaxSaved == 3    \* trees given to saveLinks on its own hold at most MaxSaved items

JLink(id, title, url) ==
    JObj(Prop("id", id) \o <<KV("type", JStr(LINK))>> \o Prop("title", title)
         \o Prop("url", url))

JFolder(id, title, items) ==
    JObj(Prop("id", id) \o <<KV("type", JStr(FOLDER))>> \o Prop("title", title)
         \o <<KV("items", JArr(items))>>)

JLegacyFolder(id, name, folders, links) ==
    JObj(Prop("id", id) \o Prop("name", name) \o <<KV("folders", JArr(folders))>>
         \o <<KV("links", JArr(links))>>)

JLegacyLink(id, title, url) ==
    JObj(Prop("id", id) \o Prop("title", title) \o Prop("url", url))

\* A document of the current schema
CurrentDoc ==
    JObj(<<KV("items",
              JArr(<<JFolder(<<"f1">>, <<"Work">>,
                             <<JLink(<<"l1">>, <<"Gmail">>, <<"https://mail">>)>>)>>))>>)

\* A document of the current schema whose link has no id
CurrentDocNoId ==
    JObj(<<KV("items", JArr(<<JLink(undefined, <<"Gmail">>, <<"https://mail">>)>>))>>)

\* The legacy document of README.md
LegacyDoc ==
    JObj(<<KV("folders",
              JArr(<<JLegacyFolder(<<"work">>, <<"Work">>, <<>>,
                                   <<JLegacyLink(undefined, <<"Gmail">>,
                                                 <<"https://mail">>)>>)>>))>>)

\* A legacy document without ids, its link without a title
LegacyDocBare ==
    JObj(<<KV("folders",
              JArr(<<JLegacyFolder(undefined, <<"Work">>, <<>>,
                                   <<JLegacyLink(undefined, undefined,
                                                 <<"https://mail">>)>>)>>))>>)

\* A legacy document one of whose folder entries is null
LegacyDocNullFolder ==
    JObj(<<KV("folders",
              JArr(<<JLegacyFolder(<<"work">>, <<"Work">>, <<>>, <<>>), JNull>>))>>)

\* A legacy document one of whose link entries is null
LegacyDocNullLink ==
    JObj(<<KV("folders",
              JArr(<<JLegacyFolder(<<"work">>, <<"Work">>, <<>>, <<JNull>>)>>))>>)

\* An object of neither schema
UnrecognizedDoc == JObj(<<KV("version", JStr(<<"1">>))>>)

FileInputs ==
    { NoFile, Malformed, FileOf(JNull), FileOf(CurrentDoc), FileOf(LegacyDoc),
      FileOf(UnrecognizedDoc), FileOf(LegacyDocNullFolder) }

\* Forests with exactly n items: a leaf is a link or an empty folder
RECURSIVE ShapesOf(_)
NodesOf(k) ==
    (IF k = 1 THEN {LinkItem(<<>>, <<>>, <<>>, undefined, undefined)} ELSE {})
    \cup { FolderItem(<<>>, <<>>, undefined, kids) : kids \in ShapesOf(k - 1) }

ShapesOf(n) ==
    IF n = 0
    THEN {<<>>}
    ELSE UNION { { <<first>> \o rest : first \in NodesOf(k), rest \in ShapesOf(n - k) }
                 : k \in 1..n }

\* The items numbered in depth-first pre-order from k: ids, titles and urls
\* carry the number, every second item has an icon
RECURSIVE Label(_, _)
Label(items, k) ==
    IF items = <<>>
    THEN <<>>
    ELSE LET item == Head(items)
             num == toString36(k)
             icon == IF k % 2 = 0 THEN <<"*">> ELSE undefined
             this == IF item.type = LINK
                     THEN LinkItem(<<"i">> \o num, <<"T">> \o num, <<"u">> \o num, icon,
                                   IF k % 2 = 0 THEN undefined ELSE <<"app">>)
                     ELSE FolderItem(<<"i">> \o num, <<"T">> \o num, icon,
                                     Label(item.items, k + 1))
         IN  <<this>> \o Label(Tail(items), k + 1 + CountItems(item.items))

TreesUpTo(max) == { [items |-> Label(s, 1)] : s \in UNION { ShapesOf(n) : n \in 0..max } }

TreeInputs == TreesUpTo(MaxNodes)

LinkValues ==
    { [title |-> <<>>, url |-> <<>>, icon |-> <<>>, appId |-> <<>>],
      [title |-> <<"X">>, url |-> <<"https://x">>, icon |-> <<"*">>, appId |-> <<"app">>] }

FolderValues ==
    { [title |-> <<" ">>, icon |-> <<>>], [title |-> <<"F">>, icon |-> <<"*">>] }

\* What runAppleScript returns: the url and the title of the front tab
TabResults ==
    { [url |-> <<>>, title |-> <<>>], [url |-> <<"https://tab">>, title |-> <<>>] }

----------------------------------------------------------------------------
(* The tree each handler saves *)

\* getApplications(): the installed applications, by bundle id
Applications == {<<"app">>}

\* apps.find(a => (a.bundleId || a.path) === values.appId), as saved
appToSave(appId) == IF appId \in Applications THEN appId ELSE undefined

newLink(values, d) ==
    LinkItem(generateId(d), Or(trim(values.title), values.url), trim(values.url),
             Or(trim(values.icon), undefined), appToSave(values.appId))

editedLink(i, values) ==
    LinkItem(i.id, Or(trim(values.title), values.url), trim(values.url),
             Or(trim(values.icon), undefined), appToSave(values.appId))

newFolder(values, d) ==
    FolderItem(generateId(d), Or(trim(values.title), <<"Unnamed">>),
               Or(trim(values.icon), undefined), <<>>)

editedFolder(i, values) ==
    FolderItem(i.id, Or(trim(values.title), <<"Unnamed">>),
               Or(trim(values.icon), undefined), i.items)

\* getActiveTabFromBrowser returning null
NoTab == [url |-> null, title |-> null]

\* getActiveTabFromBrowser: null when no script yields a url
activeTab(result) ==
    IF Truthy(result.url)
    THEN [url |-> result.url, title |-> Or(result.title, result.url)]
    ELSE NoTab

tabLink(active, d) == LinkItem(generateId(d), active.title, active.url, undefined, undefined)

\* items.map((i) => (i.id === link.id ? {...} : i))
editLinkUpdater(items, id, values) ==
    [k \in 1..Len(items) |->
        IF items[k].id = id THEN editedLink(items[k], values) ELSE items[k]]

\* items.map((i) => (i.id === folder.id ? {...} : i))
editFolderUpdater(items, id, values) ==
    [k \in 1..Len(items) |->
        IF items[k].id = id THEN editedFolder(items[k], values) ELSE items[k]]

\* The updaters, the appending ones forgetting the items already there
updaterForgetting(u, items) ==
    CASE u.op = "append" -> <<u.item>>
      [] u.op = "editLink" -> editLinkUpdater(items, u.id, u.values)
      [] u.op = "editFolder" -> editFolderUpdater(items, u.id, u.values)
      [] u.op = "move" -> moveUpdater(items, u.itemId, u.delta)
      [] u.op = "duplicate" -> duplicateUpdater(items, u.itemId, u.draws)
      [] u.op = "delete" -> deleteUpdater(items, u.itemId)
      [] u.op = "clear" -> <<>>
      [] u.op = "reverse" -> [k \in 1..Len(items) |-> items[Len(items) + 1 - k]]

\* The updater closures passed to updateFolder, each with the values it captures
updater(u, items) ==
    CASE u.op = "append" -> Append(items, u.item)
      [] u.op = "editLink" -> editLinkUpdater(items, u.id, u.values)
      [] u.op = "editFolder" -> editFolderUpdater(items, u.id, u.values)
      [] u.op = "move" -> moveUpdater(items, u.itemId, u.delta)
      [] u.op = "duplicate" -> duplicateUpdater(items, u.itemId, u.draws)
      [] u.op = "delete" -> deleteUpdater(items, u.itemId)
      [] u.op = "clear" -> <<>>
      [] u.op = "reverse" -> [k \in 1..Len(items) |-> items[Len(items) + 1 - k]]

updateFolder(d, id, u) ==
    IF ~Truthy(id)
    THEN [d EXCEPT !.items = updater(u, d.items)]
    ELSE LET target == find(d.items, id)
         IN  IF target.found
             THEN [d EXCEPT !.items = traverse(d.items, id, updater(u, target.items)).items]
             ELSE d

moveItem(d, fid, itemId, delta) ==
    updateFolder(d, fid, [op |-> "move", itemId |-> itemId, delta |-> delta])

duplicateItem(d, fid, itemId, draws) ==
    updateFolder(d, fid, [op |-> "duplicate", itemId |-> itemId, draws |-> draws])

deleteItem(d, fid, itemId) ==
    updateFolder(d, fid, [op |-> "delete", itemId |-> itemId])

\* How many times duplicateItem calls generateId
DuplicateGenCalls(d, fid, itemId) ==
    LET items == currentItems(d, fid)
        idx == findIndex(items, itemId)
    IN  IF (Truthy(fid) => find(d.items, fid).found) /\ idx # 0
        THEN CloneGenCalls(items[idx])
        ELSE 0

----------------------------------------------------------------------------
(* Handlers *)

TitlesBounded(items) ==
    \A k \in 1..Len(Flatten(items)) : Len(Flatten(items)[k].title) <= MaxTitle

NoCall == [op |-> "none"]

\* loadLinks() at the head of a handler: the tree, and the clock afterwards
Loads ==
    { [tree |-> loadLinks(linksPath, files, dl), time |-> LastTime(dl, now)]
      : dl \in Draws(LoadGenCalls(linksPath, files), now) }

\* saveLinks(d2), then triggerRefresh(): the FolderList effect loads again
Commit(d2, t) ==
    LET fs2 == saveLinks(linksPath, files, d2)
    IN  \E dr \in Draws(LoadGenCalls(linksPath, fs2), t) :
            /\ files' = fs2
            /\ data' = loadLinks(linksPath, fs2, dr)
            /\ now' = LastTime(dr, t)
            /\ io' = <<"load", "save", "load">>
            /\ opened' = <<>>
            /\ UNCHANGED <<linksPath, folderId, call>>

\* Command: a FolderList at the top level, whose effect loads the tree
Launch ==
    \E l \in Loads :
        /\ data' = l.tree
        /\ now' = l.time
        /\ folderId' = null
        /\ io' = <<"load">>
        /\ toast' = NoToast
        /\ opened' = <<>>
        /\ UNCHANGED <<linksPath, files, call>>

\* "Open Folder": a FolderList for the folder on display is pushed and loads
OpenFolder ==
    \E k \in 1..Len(currentItems(data, folderId)) :
        LET item == currentItems(data, folderId)[k]
        IN  /\ item.type = FOLDER
            /\ \E l \in Loads :
                /\ data' = l.tree
                /\ now' = l.time
                /\ folderId' = item.id
                /\ io' = <<"load">>
                /\ toast' = NoToast
                /\ opened' = <<>>
                /\ UNCHANGED <<linksPath, files, call>>

\* AddLinkForm.handleSubmit
AddLinkStep(values) ==
    \E l \in Loads :
        /\ CountItems(l.tree.items) < MaxItems
        /\ \E dx \in Draws(1, l.time) :
            LET item == newLink(values, dx[1])
                d2 == updateFolder(l.tree, folderId, [op |-> "append", item |-> item])
            IN  /\ Commit(d2, dx[1].t)
                /\ toast' = Success(<<"Link added">>)

AddLinkSubmit == \E values \in LinkValues : AddLinkStep(values)

\* EditLinkForm.handleSubmit
EditLinkSubmit ==
    \E k \in 1..Len(currentItems(data, folderId)), values \in LinkValues, l \in Loads :
        LET link == currentItems(data, folderId)[k]
            d2 == updateFolder(l.tree, folderId,
                               [op |-> "editLink", id |-> link.id, values |-> values])
        IN  /\ link.type = LINK
            /\ Commit(d2, l.time)
            /\ toast' = Success(<<"Link updated">>)

\* AddFolderForm.handleSubmit
AddFolderSubmit ==
    \E values \in FolderValues, l \in Loads :
        /\ CountItems(l.tree.items) < MaxItems
        /\ \E dx \in Draws(1, l.time) :
            LET item == newFolder(values, dx[1])
                d2 == updateFolder(l.tree, folderId, [op |-> "append", item |-> item])
            IN  /\ Commit(d2, dx[1].t)
                /\ toast' = Success(<<"Folder created">>)

\* EditFolderForm.handleSubmit
EditFolderSubmit ==
    \E k \in 1..Len(currentItems(data, folderId)), values \in FolderValues, l \in Loads :
        LET folder == currentItems(data, folderId)[k]
            d2 == updateFolder(l.tree, folderId,
                               [op |-> "editFolder", id |-> folder.id, values |-> values])
        IN  /\ folder.type = FOLDER
            /\ Commit(d2, l.time)
            /\ toast' = Success(<<"Folder updated">>)

\* handleAddLinkFromTab
AddLinkFromTab ==
    \E result \in TabResults :
        LET active == activeTab(result)
        IN  IF active = NoTab
            THEN /\ toast' = Failure(<<"Could not read active tab">>)
                 /\ io' = <<>>
                 /\ opened' = <<>>
                 /\ UNCHANGED <<linksPath, files, now, data, folderId, call>>
            ELSE \E l \in Loads :
                    /\ CountItems(l.tree.items) < MaxItems
                    /\ \E dx \in Draws(1, l.time) :
                        LET item == tabLink(active, dx[1])
                            d2 == updateFolder(l.tree, folderId,
                                               [op |-> "append", item |-> item])
                        IN  /\ Commit(d2, dx[1].t)
                            /\ toast' = Success(<<"Link added from active tab">>)

\* FolderList.moveItem
MoveItem ==
    \E k \in 1..Len(currentItems(data, folderId)), delta \in {-1, 1}, l \in Loads :
        LET itemId == currentItems(data, folderId)[k].id
        IN  /\ Commit(moveItem(l.tree, folderId, itemId, delta), l.time)
            /\ toast' = NoToast

\* FolderList.duplicateItem
DuplicateItem ==
    \E k \in 1..Len(currentItems(data, folderId)), l \in Loads :
        LET itemId == currentItems(data, folderId)[k].id
            n == DuplicateGenCalls(l.tree, folderId, itemId)
        IN  /\ CountItems(l.tree.items) + n <= MaxItems
            /\ \E dx \in Draws(n, l.time) :
                /\ TitlesBounded(duplicateItem(l.tree, folderId, itemId, dx).items)
                /\ Commit(duplicateItem(l.tree, folderId, itemId, dx), LastTime(dx, l.time))
                /\ toast' = NoToast

\* FolderList.deleteItem: `ok` is the answer to confirmAlert
DeleteItemStep(itemId, ok) ==
    IF ~ok
    THEN /\ toast' = NoToast
         /\ io' = <<>>
         /\ opened' = <<>>
         /\ UNCHANGED <<linksPath, files, now, data, folderId, call>>
    ELSE \E l \in Loads :
            /\ Commit(deleteItem(l.tree, folderId, itemId), l.time)
            /\ toast' = Success(<<"Deleted successfully">>)

DeleteItem ==
    \E k \in 1..Len(currentItems(data, folderId)), ok \in BOOLEAN :
        DeleteItemStep(currentItems(data, folderId)[k].id, ok)

\* openAllLinks(folder); openUrl throws at the positions `fails`
openAllLinks(folder, fails) ==
    LET links == getAllLinksData(folder.items)
    IN  /\ opened' = openAllCalls(links, fails)
        /\ toast' = openAllToast(links)
        /\ io' = <<>>
        /\ UNCHANGED <<linksPath, files, now, data, folderId>>

\* "Open All Links in Folder" on a folder on display
OpenAll ==
    \E k \in 1..Len(currentItems(data, folderId)) :
        LET folder == currentItems(data, folderId)[k]
        IN  /\ folder.type = FOLDER
            /\ \E fails \in SUBSET (1..Len(getAllLinksData(folder.items))) :
                    openAllLinks(folder, fails)
            /\ UNCHANGED call

----------------------------------------------------------------------------
(* The extension: a links file as the user left it, then the commands *)

InitConfigs ==
    { [pref |-> undefined, custom |-> NoFile, support |-> NoFile, assets |-> NoFile],
      [pref |-> undefined, custom |-> NoFile, support |-> NoFile,
       assets |-> FileOf(LegacyDoc)],
      [pref |-> undefined, custom |-> NoFile, support |-> FileOf(CurrentDocNoId),
       assets |-> FileOf(LegacyDoc)],
      [pref |-> PrefFile, custom |-> FileOf(LegacyDocBare), support |-> FileOf(CurrentDoc),
       assets |-> NoFile] }

Init ==
    \E c \in InitConfigs :
        /\ linksPath = c.pref
        /\ files = [p \in Paths |->
                      IF p = PrefFile THEN c.custom
                      ELSE IF p = SupportFile THEN c.support
                      ELSE c.assets]
        /\ now = 0
        /\ \E dl \in Draws(LoadGenCalls(c.pref, files), 0) :
               data = loadLinks(c.pref, files, dl)
        /\ folderId = null
        /\ toast = NoToast
        /\ io = <<"load">>
        /\ opened = <<>>
        /\ call = NoCall

Next ==
    \/ Launch
    \/ OpenFolder
    \/ AddLinkSubmit
    \/ EditLinkSubmit
    \/ AddFolderSubmit
    \/ EditFolderSubmit
    \/ AddLinkFromTab
    \/ MoveItem
    \/ DuplicateItem
    \/ DeleteItem
    \/ OpenAll

Spec == Init /\ [][Next]_vars

----------------------------------------------------------------------------
(* The functions on their own: each is applied once to inputs drawn from     *)
(* TreeInputs and FileInputs, and `call` keeps the inputs and the result.    *)

InitAlone ==
    /\ linksPath = undefined
    /\ files = [p \in Paths |-> NoFile]
    /\ now = 0
    /\ data \in TreeInputs
    /\ folderId = null
    /\ toast = NoToast
    /\ io = <<>>
    /\ opened = <<>>
    /\ call = NoCall

\* The ids of a sequence of items and of everything nested in it
Ids(items) == { Flatten(items)[k].id : k \in 1..Len(Flatten(items)) }

FolderIds(items) ==
    { Flatten(items)[k].id : k \in { j \in 1..Len(Flatten(items)) :
                                        Flatten(items)[j].type = FOLDER } }

Absent == <<"absent">>

\* Updaters to call updateFolder with
Updaters ==
    { [op |-> "append",
       item |-> LinkItem(<<"new">>, <<"New">>, <<"https://new">>, undefined, undefined)],
      [op |-> "clear"],
      [op |-> "reverse"] }

CallUpdateFolder ==
    /\ call = NoCall
    /\ \E id \in Ids(data.items) \cup {null, Absent}, u \in Updaters :
        call' = [op |-> "updateFolder", folderId |-> id, updater |-> u,
                 result |-> updateFolder(data, id, u)]
    /\ UNCHANGED <<linksPath, files, now, data, folderId, toast, io, opened>>

CallMoveItem ==
    /\ call = NoCall
    /\ \E fid \in FolderIds(data.items) \cup {null}, delta \in {-1, 1} :
        \E itemId \in Ids(currentItems(data, fid)) \cup {Absent} :
            call' = [op |-> "moveItem", folderId |-> fid, itemId |-> itemId,
                     delta |-> delta, result |-> moveItem(data, fid, itemId, delta)]
    /\ UNCHANGED <<linksPath, files, now, data, folderId, toast, io, opened>>

NextMutate == CallUpdateFolder \/ CallMoveItem

SpecMutate == InitAlone /\ [][NextMutate]_vars

CallDuplicateItem ==
    /\ call = NoCall
    /\ \E fid \in FolderIds(data.items) \cup {null} :
        \E itemId \in Ids(currentItems(data, fid)) \cup {Absent} :
            \E dx \in Draws(DuplicateGenCalls(data, fid, itemId), now) :
                call' = [op |-> "duplicateItem", folderId |-> fid, itemId |-> itemId,
                         result |-> duplicateItem(data, fid, itemId, dx)]
    /\ UNCHANGED <<linksPath, files, now, data, folderId, toast, io, opened>>

SpecDuplicate == InitAlone /\ [][CallDuplicateItem]_vars

CallOpenAllLinks ==
    /\ call = NoCall
    /\ \E k \in 1..Len(Flatten(data.items)) :
        LET folder == Flatten(data.items)[k]
        IN  /\ folder.type = FOLDER
            /\ \E fails \in SUBSET (1..Len(getAllLinksData(folder.items))) :
                    openAllLinks(folder, fails)
            /\ call' = [op |-> "openAllLinks", folder |-> folder]

SpecOpen == InitAlone /\ [][CallOpenAllLinks]_vars

InitPersist ==
    /\ linksPath \in {undefined, <<" ">>, PrefFile}
    /\ files \in [Paths -> FileInputs]
    /\ now = 0
    /\ data = [items |-> <<>>]
    /\ folderId = null
    /\ toast = NoToast
    /\ io = <<>>
    /\ opened = <<>>
    /\ call = NoCall

\* saveLinks(tree), then loadLinks()
CallSaveLoad ==
    /\ call = NoCall
    /\ \E tree \in TreesUpTo(MaxSaved) :
        LET fs2 == saveLinks(linksPath, files, tree)
        IN  \E dr \in Draws(LoadGenCalls(linksPath, fs2), now) :
                /\ files' = fs2
                /\ call' = [op |-> "saveLoad", tree |-> tree,
                            loaded |-> loadLinks(linksPath, fs2, dr)]
    /\ UNCHANGED <<linksPath, now, data, folderId, toast, io, opened>>

CallLoadLinks ==
    /\ call = NoCall
    /\ \E dl \in Draws(LoadGenCalls(linksPath, files), now) :
        call' = [op |-> "loadLinks", draws |-> dl, result |-> loadLinks(linksPath, files, dl)]
    /\ UNCHANGED <<linksPath, files, now, data, folderId, toast, io, opened>>

NextPersist == CallSaveLoad \/ CallLoadLinks

SpecPersist == InitPersist /\ [][NextPersist]_vars

----------------------------------------------------------------------------
(* migrateData on its own (SpecMigrate) *)

\* A legacy link without id and title, and one with both
LegacyLinkBare == JLegacyLink(undefined, undefined, <<"https://a">>)
LegacyLinkFull == JLegacyLink(<<"l1">>, <<"Gmail">>, <<"https://mail">>)

LegacyLinkInputs ==
    { <<>>, <<LegacyLinkBare>>, <<LegacyLinkBare, LegacyLinkFull>>,
      <<LegacyLinkFull, LegacyLinkBare>> }

\* Legacy folders without nested folders
LegacyInnerFolders ==
    { JLegacyFolder(id, <<"Inner">>, <<>>, ls) :
        id \in {undefined, <<"g">>}, ls \in LegacyLinkInputs }

\* Legacy folders with at most one nested folder
LegacyOuterFolders ==
    { JLegacyFolder(id, <<"Work">>, subs, ls) :
        id \in {undefined, <<"work">>},
        subs \in {<<>>} \cup { <<g>> : g \in LegacyInnerFolders },
        ls \in {<<>>, <<LegacyLinkBare, LegacyLinkFull>>} }

\* A legacy document with two top-level folders
LegacyDocTwo ==
    JObj(<<KV("folders",
              JArr(<<JLegacyFolder(<<"a">>, <<"A">>, <<>>, <<LegacyLinkFull>>),
                     JLegacyFolder(undefined, undefined, <<>>, <<>>)>>))>>)

\* The documents migrateData is called with
MigrateInputs ==
    { JObj(<<KV("folders", JArr(<<f>>))>>) : f \in LegacyOuterFolders }
    \cup { LegacyDoc, LegacyDocBare, LegacyDocTwo, LegacyDocNullFolder, LegacyDocNullLink,
           CurrentDoc, CurrentDocNoId, EmptyDocument, UnrecognizedDoc, JNull }

InitMigrate ==
    /\ linksPath = undefined
    /\ \E doc \in MigrateInputs :
            files = [p \in Paths |-> IF p = SupportFile THEN FileOf(doc) ELSE NoFile]
    /\ now = 0
    /\ data = [items |-> <<>>]
    /\ folderId = null
    /\ toast = NoToast
    /\ io = <<>>
    /\ opened = <<>>
    /\ call = NoCall

\* migrateData(JSON.parse(raw)) on the document of the support file
CallMigrateData ==
    /\ call = NoCall
    /\ LET raw == files[SupportFile].value
       IN  \E dl \in Draws(MigrateGenCalls(raw), now) :
               call' = [op |-> "migrateData", raw |-> raw, draws |-> dl,
                        result |-> migrateData(raw, dl)]
    /\ UNCHANGED <<linksPath, files, now, data, folderId, toast, io, opened>>

SpecMigrate == InitMigrate /\ [][CallMigrateData]_vars

----------------------------------------------------------------------------
(* The asynchronous handlers of one process, interleaved (SpecAsync) *)

\* The handlers that suspend before they load: a form until it is submitted,
\* deleteItem at confirmAlert, handleAddLinkFromTab at getActiveTabFromBrowser
AddHandlers == {"addLink", "addFromTab"}
Handlers == AddHandlers \cup {"deleteItem"}

\* A handler: where it stands, the id it captured from the tree on display, the
\* id and title of the item it saved, how many handlers had saved when it
\* started, and its place among the handlers that saved
IdleHandler ==
    [phase |-> "idle", target |-> null, id |-> null, title |-> null, seen |-> 0, order |-> 0]

HasSaved(x) == call.h[x].phase = "saved"

SavedCount == Cardinality({ x \in Handlers : HasSaved(x) })

InitAsync ==
    /\ linksPath = undefined
    /\ files \in { [p \in Paths |-> IF p = SupportFile THEN FileOf(CurrentDoc) ELSE NoFile],
                    [p \in Paths |-> IF p = AssetsFile THEN FileOf(LegacyDoc) ELSE NoFile] }
    /\ now = 0
    /\ \E dl \in Draws(LoadGenCalls(linksPath, files), 0) :
           data = loadLinks(linksPath, files, dl)
    /\ folderId = null
    /\ toast = NoToast
    /\ io = <<"load">>
    /\ opened = <<>>
    /\ call = [op |-> "async", h |-> [x \in Handlers |-> IdleHandler]]

\* The handler starts and suspends: the form is pushed, or the handler awaits
StartHandler ==
    \E x \in Handlers :
        /\ call.h[x].phase = "idle"
        /\ \E k \in 0..Len(currentItems(data, folderId)) :
            LET items == currentItems(data, folderId)
                target == IF k = 0 THEN null ELSE items[k].id
            IN  /\ x \in AddHandlers <=> k = 0
                /\ call' = [call EXCEPT !.h[x] =
                               [IdleHandler EXCEPT !.phase = "awaiting", !.target = target,
                                                   !.seen = SavedCount]]
        /\ UNCHANGED <<linksPath, files, now, data, folderId, toast, io, opened>>

\* The handler returns without loading: no active tab, or the alert dismissed
ReturnHandler ==
    \E x \in {"addFromTab", "deleteItem"} :
        /\ call.h[x].phase = "awaiting"
        /\ call' = [call EXCEPT !.h[x].phase = "returned"]
        /\ toast' = IF x = "addFromTab" THEN Failure(<<"Could not read active tab">>)
                    ELSE NoToast
        /\ UNCHANGED <<linksPath, files, now, data, folderId, io, opened>>

\* The item handler x builds from its inputs: the new link of an add handler;
\* for deleteItem the id it captured
HandlerItem(x, lv, result, d) ==
    CASE x = "addLink" -> newLink(lv, d)
      [] x = "addFromTab" -> tabLink(activeTab(result), d)
      [] x = "deleteItem" -> LinkItem(call.h[x].target, null, null, undefined, undefined)

\* The updater handler x passes to updateFolder
HandlerUpdater(x, item) ==
    IF x \in AddHandlers THEN [op |-> "append", item |-> item]
    ELSE [op |-> "delete", itemId |-> call.h[x].target]

HandlerToast(x) ==
    Success(CASE x = "addLink" -> <<"Link added">>
              [] x = "addFromTab" -> <<"Link added from active tab">>
              [] x = "deleteItem" -> <<"Deleted successfully">>)

\* The handler resumes: loadLinks, updateFolder, saveLinks and the refresh run
\* with no await between them; what follows (await showToast, pop) touches
\* neither the file nor the tree
ResumeHandler ==
    \E x \in Handlers, l \in Loads :
        \E dx \in Draws(1, l.time), lv \in { v \in LinkValues : v.title # <<>> },
           result \in TabResults :
            LET item == HandlerItem(x, lv, result, dx[1])
                d2 == updateFolder(l.tree, folderId, HandlerUpdater(x, item))
                fs2 == saveLinks(linksPath, files, d2)
                t == IF x \in AddHandlers THEN dx[1].t ELSE l.time
            IN  /\ call.h[x].phase = "awaiting"
                /\ x = "addFromTab" => activeTab(result) # NoTab
                /\ files' = fs2
                /\ \E dr \in Draws(LoadGenCalls(linksPath, fs2), t) :
                        /\ data' = loadLinks(linksPath, fs2, dr)
                        /\ now' = LastTime(dr, t)
                /\ io' = <<"load", "save", "load">>
                /\ toast' = HandlerToast(x)
                /\ call' = [call EXCEPT !.h[x].phase = "saved",
                                        !.h[x].id = item.id,
                                        !.h[x].title = item.title,
                                        !.h[x].order = SavedCount + 1]
                /\ UNCHANGED <<linksPath, folderId, opened>>

NextAsync == StartHandler \/ ReturnHandler \/ ResumeHandler \/ MoveItem

SpecAsync == InitAsync /\ [][NextAsync]_vars

----------------------------------------------------------------------------
(* Claims about the extension (Spec) *)

\* The file saveLinks writes
TargetFile == files[Or(getPreferencePath(linksPath), SupportFile)]

\* The items of the persisted document, at every depth
PersistedItems ==
    IF TargetFile.exists /\ TargetFile.wellFormed /\ IsCurrentSchema(TargetFile.value)
    THEN Flatten(AsItems(Get(TargetFile.value, "items").v))
    ELSE <<>>

\* The last handler saved the tree
Saved == io = <<"load", "save", "load">>

\* C1: in every document a handler has saved, every item has a non-empty id and
\* no two items, at any depth, share an id.
C1_IdsUniqueAndNonEmpty ==
    Saved =>
        /\ \A k \in 1..Len(PersistedItems) : Truthy(PersistedItems[k].id)
        /\ \A j, k \in 1..Len(PersistedItems) :
               j # k => PersistedItems[j].id # PersistedItems[k].id

\* C2: in every document a handler has saved, every item has a non-empty title.
C2_TitleNeverEmpty ==
    Saved => \A k \in 1..Len(PersistedItems) : Truthy(PersistedItems[k].title)

\* C3: submitting the add-link form with an empty URL performs no file I/O,
\* reports an error and leaves the persisted document as it was.
C3_EmptyUrlRejected ==
    [][\A values \in LinkValues :
           (values.url = <<>> /\ AddLinkStep(values)) =>
               /\ files' = files
               /\ io' = <<>>
               /\ toast'.style = "Failure"]_vars

----------------------------------------------------------------------------
(* Claims about loadLinks and saveLinks (SpecPersist) *)

\* C4: saveLinks(T) followed by loadLinks() returns T, id for id and in the same
\* order, whatever the preference and the other candidate files hold.
C4_RoundTrip == call.op = "saveLoad" => call.loaded = call.tree

\* A nested tree saved to the preference path while the support file holds
\* another document and the assets file is malformed
C4_Witness ==
    /\ call.op = "saveLoad"
    /\ linksPath = PrefFile
    /\ files[SupportFile] = FileOf(CurrentDoc)
    /\ files[AssetsFile] = Malformed
    /\ \E k \in 1..Len(call.tree.items) : Len(call.tree.items[k].items) >= 2
    /\ call.loaded.items # <<>>

\* The paths loadLinks tries, in order
Candidates(pref) ==
    IF Truthy(getPreferencePath(pref))
    THEN <<getPreferencePath(pref), SupportFile, AssetsFile>>
    ELSE <<SupportFile, AssetsFile>>

\* The value of the first candidate that exists and parses
FirstParsed(pref, fs) ==
    LET c == Candidates(pref)
        ok == { k \in 1..Len(c) : fs[c[k]].exists /\ fs[c[k]].wellFormed }
    IN  IF ok = {}
        THEN EmptyDocument
        ELSE fs[c[CHOOSE k \in ok : \A j \in ok : k <= j]].value

\* C10: loadLinks returns the migration of the first candidate that exists and
\* parses, whatever JSON value it holds; no later candidate is used.
C10_FirstParsedWins ==
    call.op = "loadLinks" =>
        call.result = migrateData(FirstParsed(linksPath, files), call.draws)

----------------------------------------------------------------------------
(* Claims about updateFolder and moveItem (SpecMutate) *)

\* The children of the folder whose id is X, read off the flattened tree
ChildrenOfFolder(items, X) ==
    LET F == Flatten(items)
    IN  F[CHOOSE k \in 1..Len(F) : F[k].type = FOLDER /\ F[k].id = X].items

ChildrenAt(items, X) == IF X = null THEN items ELSE ChildrenOfFolder(items, X)

ChildIds(items) == { items[k].id : k \in 1..Len(items) }

\* The tree without the children of the folder whose id is X
RECURSIVE Emptied(_, _)
Emptied(items, X) ==
    [k \in 1..Len(items) |->
        IF items[k].type = FOLDER /\ items[k].id = X
        THEN [items[k] EXCEPT !.items = <<>>]
        ELSE [items[k] EXCEPT !.items = Emptied(@, X)]]

\* C5: updateFolder(tree, null, f) replaces the top-level sequence by f's result
\* and no nested sequence; updateFolder(tree, X, f) replaces the children of the
\* folder X, at any depth, and nothing else; without a folder X the tree is left
\* as it was.
C5_MutatorScoping ==
    call.op = "updateFolder" =>
        LET X == call.folderId
            before == data.items
            after == call.result.items
        IN  IF X = null
            THEN /\ after = updater(call.updater, before)
                 /\ \A Y \in FolderIds(after) :
                        ChildrenOfFolder(after, Y) = ChildrenOfFolder(before, Y)
            ELSE IF X \in FolderIds(before)
            THEN /\ ChildrenOfFolder(after, X)
                        = updater(call.updater, ChildrenOfFolder(before, X))
                 /\ Emptied(after, X) = Emptied(before, X)
            ELSE after = before

\* updateFolder changed the children of a folder that is not at the top level
C5_Witness ==
    /\ call.op = "updateFolder"
    /\ call.folderId \in FolderIds(data.items)
    /\ \A k \in 1..Len(data.items) : data.items[k].id # call.folderId
    /\ call.result # data

\* C7: moving an item by +1 or -1 swaps it with its neighbour in the same parent
\* and changes nothing else; the first child moved up and the last child moved
\* down leave the sequence as it was.
C7_MoveSwapsNeighbours ==
    call.op = "moveItem" =>
        LET items == ChildrenAt(data.items, call.folderId)
            res == ChildrenAt(call.result.items, call.folderId)
        IN  /\ Len(res) = Len(items)
            /\ \A k \in 1..Len(items) :
                items[k].id = call.itemId =>
                    LET n == k + call.delta
                    IN  IF n \in 1..Len(items)
                        THEN /\ res[n] = items[k]
                             /\ res[k] = items[n]
                             /\ \A j \in 1..Len(items) : j \notin {k, n} => res[j] = items[j]
                        ELSE res = items
            /\ call.itemId \notin ChildIds(items) => res = items
            /\ call.folderId # null =>
                    Emptied(call.result.items, call.folderId)
                        = Emptied(data.items, call.folderId)

\* An item of a nested folder with three children changed places
C7_Witness ==
    /\ call.op = "moveItem"
    /\ call.folderId # null
    /\ Len(ChildrenAt(data.items, call.folderId)) >= 3
    /\ call.result # data

----------------------------------------------------------------------------
(* Claims about duplicateItem (SpecDuplicate) *)

RECURSIVE StripIds(_)
StripIds(items) ==
    [k \in 1..Len(items) |-> [items[k] EXCEPT !.id = <<>>, !.items = StripIds(@)]]

\* C6: duplicating item X gives its parent exactly one extra child, right after
\* X, the other children and their order unchanged; the extra child copies X's
\* subtree, its top title followed by " (Copy)", and its N ids are new, pairwise
\* distinct and different from every id of the original subtree.
C6_DuplicateInsertsFreshCopy ==
    (call.op = "duplicateItem"
        /\ call.itemId \in ChildIds(ChildrenAt(data.items, call.folderId))) =>
        LET items == ChildrenAt(data.items, call.folderId)
            res == ChildrenAt(call.result.items, call.folderId)
            k == CHOOSE j \in 1..Len(items) : items[j].id = call.itemId
            original == <<items[k]>>
            copy == <<res[k + 1]>>
        IN  /\ Len(res) = Len(items) + 1
            /\ \A j \in 1..k : res[j] = items[j]
            /\ \A j \in (k + 1)..Len(items) : res[j + 1] = items[j]
            /\ StripIds(copy)
                    = StripIds(<<[items[k] EXCEPT !.title = @ \o <<" (Copy)">>]>>)
            /\ Cardinality(Ids(copy)) = CountItems(original)
            /\ Ids(copy) \cap Ids(original) = {}

----------------------------------------------------------------------------
(* Claims about openAllLinks (SpecOpen) *)

\* The links under a folder at any depth, in depth-first pre-order
LinksUnder(folder) == SelectSeq(Flatten(folder.items), LAMBDA i : i.type = LINK)

Succeeded == { k \in 1..Len(opened) : ~opened[k].failed }

\* The number a summary toast reports
ReportedCount(title) == SelectSeq(title, LAMBDA c : \E d \in 1..Len(Digits10) : Digits10[d] = c)

\* C8: openAllLinks issues exactly one open per link under the folder, in
\* depth-first pre-order, whichever earlier opens failed; for a folder without
\* links it opens nothing and reports "No links in this folder" as a failure.
C8_OpenAllAttemptsEveryLink ==
    call.op = "openAllLinks" =>
        LET links == LinksUnder(call.folder)
        IN  IF Len(links) = 0
            THEN /\ opened = <<>>
                 /\ toast = Failure(<<"No links in this folder">>)
            ELSE /\ Len(opened) = Len(links)
                 /\ \A k \in 1..Len(links) :
                        /\ opened[k].url = links[k].url
                        /\ opened[k].app = links[k].app
                 /\ toast.style = "Success"

\* The first open failed and a link of a subfolder was opened after it
C8_Witness ==
    /\ call.op = "openAllLinks"
    /\ Len(opened) >= 2
    /\ opened[1].failed
    /\ \E k \in 1..Len(call.folder.items) :
            /\ call.folder.items[k].type = FOLDER
            /\ LinksUnder(call.folder.items[k]) # <<>>

\* C9 as stated: the summary counts the links whose open did not fail.
C9_CountExcludesFailures ==
    (call.op = "openAllLinks" /\ opened # <<>>) =>
        ReportedCount(toast.title) = toString10(Cardinality(Succeeded))

\* C9, amended: the summary counts every open attempt, failed or not.
C9_CountIsAttempts ==
    (call.op = "openAllLinks" /\ opened # <<>>) =>
        ReportedCount(toast.title) = toString10(Len(opened))

\* Some opens failed, some did not, and the summary was shown
C9_Witness ==
    /\ call.op = "openAllLinks"
    /\ Succeeded # {}
    /\ \E k \in 1..Len(opened) : opened[k].failed
    /\ toast.style = "Success"

----------------------------------------------------------------------------
(* Claims about loadLinks and migrateData on any document *)

\* C11: loadLinks never raises: whatever the candidate files hold it returns a
\* tree, and the empty tree when no candidate parses or the document is of
\* neither schema.
C11_LoadNeverRaises ==
    call.op = "loadLinks" =>
        LET raw == rawData(linksPath, files)
        IN  /\ call.result # TypeError
            /\ (~IsCurrentSchema(raw) /\ ~IsLegacySchema(raw)) => call.result.items = <<>>

\* C12: migrateData is idempotent: migrating its own result changes nothing, id
\* for id, and a document that already has an items sequence comes back as it was.
C12_MigrationIdempotent ==
    (call.op = "migrateData" /\ call.result # TypeError) =>
        /\ migrateData(asUnknown(call.result), <<>>) = call.result
        /\ IsCurrentSchema(call.raw) => asUnknown(call.result) = call.raw

\* A legacy document whose ids were generated has been migrated
C12_Witness ==
    /\ call.op = "migrateData"
    /\ IsLegacySchema(call.raw)
    /\ Len(call.draws) >= 2
    /\ call.result # TypeError
    /\ call.result.items # <<>>

\* The legacy link l became the link item i
LinkConverted(l, i) ==
    /\ i.type = LINK
    /\ i.id = (IF Truthy(Field(l, "id")) THEN Field(l, "id") ELSE i.id)
    /\ Truthy(i.id) /\ i.id \notin {undefined, null}
    /\ i.url = Field(l, "url")
    /\ i.title = (IF Truthy(Field(l, "title")) THEN Field(l, "title") ELSE Field(l, "url"))
    /\ i.items = <<>>

\* The legacy folder f became the folder item i: nested folders first, then links
RECURSIVE FolderConverted(_, _)
FolderConverted(f, i) ==
    LET subs == IF IsArrayAt(f, "folders") THEN Get(f, "folders").v ELSE <<>>
        ls == IF IsArrayAt(f, "links") THEN Get(f, "links").v ELSE <<>>
    IN  /\ i.type = FOLDER
        /\ i.id = (IF Truthy(Field(f, "id")) THEN Field(f, "id") ELSE i.id)
        /\ Truthy(i.id) /\ i.id \notin {undefined, null}
        /\ Len(i.items) = Len(subs) + Len(ls)
        /\ \A k \in 1..Len(subs) : FolderConverted(subs[k], i.items[k])
        /\ \A k \in 1..Len(ls) : LinkConverted(ls[k], i.items[Len(subs) + k])

\* C13: migrating a legacy document turns every legacy folder, at every depth,
\* into a folder item whose children are its converted folders in order followed
\* by its converted links in order; ids are kept, an absent id becomes a
\* generated non-empty id, an absent link title becomes the url, and nothing is
\* dropped or added.
C13_LegacyConversion ==
    (call.op = "migrateData" /\ ~IsCurrentSchema(call.raw) /\ IsLegacySchema(call.raw)
        /\ call.result # TypeError) =>
        LET fs == Get(call.raw, "folders").v
        IN  /\ Len(call.result.items) = Len(fs)
            /\ \A k \in 1..Len(fs) : FolderConverted(fs[k], call.result.items[k])

\* A folder with a nested folder and links, some without id or title, was migrated
C13_Witness ==
    /\ call.op = "migrateData"
    /\ IsLegacySchema(call.raw)
    /\ call.result # TypeError
    /\ \E k \in 1..Len(call.result.items) :
            LET i == call.result.items[k]
            IN  /\ Len(i.items) = 3
                /\ i.items[1].type = FOLDER
                /\ Len(i.items[1].items) = 2
                /\ i.items[2].type = LINK
                /\ i.items[2].title = i.items[2].url
                /\ i.items[3].id = <<"l1">>

----------------------------------------------------------------------------
(* Claims about ids across loads (Spec) *)

\* C14: an id of the tree on display designates the same item in the load of
\* the next handler: a confirmed delete of a displayed item leaves a persisted
\* tree without that item, one item at least fewer than the tree on display.
C14_DisplayedIdDesignatesItem ==
    [][\A k \in 1..Len(currentItems(data, folderId)) :
          LET itemId == currentItems(data, folderId)[k].id
          IN  DeleteItemStep(itemId, TRUE) =>
                  /\ Len(PersistedItems') < CountItems(data.items)
                  /\ \A j \in 1..Len(PersistedItems') : PersistedItems'[j].id # itemId]_vars

----------------------------------------------------------------------------
(* Claims about interleaved handlers (SpecAsync) *)

\* Handler y saved after handler x did
SavedAfter(y, x) == HasSaved(y) /\ HasSaved(x) /\ call.h[y].order > call.h[x].order

\* The top-level items of the persisted document, where the handlers act
PersistedTop ==
    IF TargetFile.exists /\ TargetFile.wellFormed /\ IsCurrentSchema(TargetFile.value)
    THEN AsItems(Get(TargetFile.value, "items").v)
    ELSE <<>>

\* C15: however the handlers interleave at their suspension points, the
\* persisted tree reflects every handler that saved: a link an add handler
\* saved is there unless a later delete removed that id, and the id a delete
\* handler removed is gone unless a later add generated it again.
C15_NoUpdateLost ==
    call.op = "async" =>
        /\ \A x \in AddHandlers :
                HasSaved(x) =>
                    \/ \E j \in 1..Len(PersistedTop) :
                            /\ PersistedTop[j].id = call.h[x].id
                            /\ PersistedTop[j].title = call.h[x].title
                    \/ /\ SavedAfter("deleteItem", x)
                       /\ call.h["deleteItem"].target = call.h[x].id
        /\ HasSaved("deleteItem") =>
                \/ \A j \in 1..Len(PersistedTop) :
                        PersistedTop[j].id # call.h["deleteItem"].target
                \/ \E x \in AddHandlers :
                        /\ SavedAfter(x, "deleteItem")
                        /\ call.h[x].id = call.h["deleteItem"].target

\* Both add handlers and the delete handler saved, each while another one was
\* suspended: the delete started first and saved last
C15_Witness ==
    /\ call.op = "async"
    /\ \A x \in Handlers : HasSaved(x)
    /\ call.h["deleteItem"].seen = 0
    /\ call.h["deleteItem"].order = 3
    /\ call.h["addFromTab"].seen = 0
    /\ call.h["addFromTab"].order = 2
    /\ call.h["deleteItem"].target = <<"f1">>
    /\ Len(PersistedItems) = 2

====
